---------------------------- MODULE Spec2Model ----------------------------
(***************************************************************************)
(* Music popularity predictor: the GRUModel training loop with early       *)
(* stopping (src/data-loader.js), the MusicPopularityApp request handlers  *)
(* (src/app.js and the earlier MusicPopularityApp of src/unnamed/part_000) *)
(* and the DataLoader's track selection (src/data-loader.js).              *)
(*                                                                         *)
(* The specifications of the module:                                       *)
(*   SpecFit     one GRUModel driven through its own methods               *)
(*   Spec        one MusicPopularityApp driven by its DOM event handlers   *)
(*   FairSpec    Spec on a backend that settles every epoch                *)
(*   SpecSelect  one DataLoader: parseCSV and selectTopTracks              *)
(*   SpecWindows one DataLoader: one text, then createSlidingWindows       *)
(*   SpecReload  one DataLoader reading one text after another             *)
(*   SpecScore   the accuracy methods of GRUModel                          *)
(*   SpecInsight the analyses of the MusicPopularityApp of src/gru.js      *)
(***************************************************************************)
EXTENDS Integers, Sequences, FiniteSets, TLC

VARIABLES
    \* ---- GRUModel (src/data-loader.js:259-519) ----
    model,            \* this.model: "null" | "built"
    weights,          \* marker of the network parameters: 0 as built, e after the
                      \* training step of epoch e (1-based) of the latest run
    bestWeights,      \* this.bestWeights: Null | Live | Copy(marker)
    bestValLoss,      \* this.bestValLoss
    history,          \* this.history.val_loss (loss, accuracy and val_accuracy
                      \* are pushed in the same four statements, lines 344-347)
    patienceCounter,  \* fit's local patienceCounter
    epoch,            \* fit's loop variable (0-based)
    epochs,           \* fit's parameter epochs
    fitPc,            \* where fit is: "idle" | "epoch" (suspended in
                      \* await this.model.fit, line 332) | "done_max" |
                      \* "done_early" | "error"
    inFlight,         \* number of fit calls that have not settled
    events,           \* epoch fields of the trainingProgress events dispatched
                      \* by the latest fit call
    X,                \* the tensors passed to fit: [train, val, tracks]
    lastCall,         \* the latest call of a prediction method: [op, result,
                      \* during], during telling whether a fit was suspended
    \* ---- the TensorFlow.js backend and the training dynamics ----
    getWeightsLive,   \* whether getWeights hands out the live variables
    envDir,           \* latest direction of the validation loss: -1 falling,
                      \* 0 flat, 1 rising
    changes,          \* number of direction changes in this run
    \* ---- MusicPopularityApp ----
    variant,          \* which MusicPopularityApp: "app" (src/app.js) |
                      \* "part000" (src/unnamed/part_000)
    isTraining,       \* this.isTraining
    trainingData,     \* this.trainingData (src/app.js only): Null | tensors
    loader,           \* the DataLoader's X_train .. y_test: Null | tensors
    notification,     \* the type of the latest showNotification
    request,          \* what became of the latest training request on arrival:
                      \* "none" | "rejected" | "nodata" | "started"
    evalPc,           \* where evaluateModel is: "idle" | "awaitData" (suspended
                      \* in await results[0].data(), inside evaluate)
    \* ---- DataLoader (src/data-loader.js:1-257) ----
    loaded,           \* whether parseCSV has run (this.data is null before)
    data,             \* this.data: sequence of entries [track_id, streams]
    tracks,           \* this.tracks
    selectedTracks,   \* this.selectedTracks
    trackMetadata,    \* this.trackMetadata: track id -> [id, totalStreams]
    metadataKeys,     \* the keys of this.trackMetadata in the order a Map
                      \* iterates them: that of their first insertion
    loads,            \* number of texts parseCSV has read
    ingested,         \* this.data as the latest selectTopTracks found it
    lastN,            \* the argument of the latest selectTopTracks
    dates,            \* this.dates
    normalized,       \* the *_normalized fields of the entries of this.data,
                      \* entry by entry (<<>> before normalizeFeatures)
    samples,          \* createSlidingWindows' local samples, as last built
    targets,          \* createSlidingWindows' local targets, as last built
    anchors,          \* the currentDate of each pair pushed
    X_train,          \* this.X_train: Null | Tensor(samples)
    y_train,          \* this.y_train
    X_test,           \* this.X_test
    y_test,           \* this.y_test
    \* ---- GRUModel's accuracy methods ----
    score,            \* the latest call of an accuracy method: its arguments
                      \* and what it returned
    \* ---- MusicPopularityApp's analyses (src/gru.js:173-436) ----
    shuffle,          \* a call of shuffleFeature: its argument X, its local
                      \* data, its loop position and what it returned
    insight           \* the latest call of computeFeatureImportance,
                      \* detectBreakoutTracks or calculateRiskLevel: its
                      \* arguments and what it returned

gruVars == <<model, weights, bestWeights, bestValLoss, history, patienceCounter,
             epoch, epochs, fitPc, inFlight, events, X, lastCall>>
envVars == <<getWeightsLive, envDir, changes>>
appVars == <<variant, isTraining, trainingData, loader, notification, request,
             evalPc>>
loaderVars == <<loaded, data, tracks, selectedTracks, trackMetadata, ingested,
                lastN, metadataKeys, loads>>
windowVars == <<dates, normalized, samples, targets, anchors, X_train, y_train,
                X_test, y_test>>
scoreVars == <<score>>
insightVars == <<shuffle, insight>>
vars == <<gruVars, envVars, appVars, loaderVars, windowVars, scoreVars,
          insightVars>>

----------------------------------------------------------------------------
\* Bounds of the model
MaxChanges == 1        \* direction changes of the validation loss per run of
                       \* a direct fit call
AppMaxChanges == 0     \* the same, per training run of the app
MaxEpochs == 16        \* largest epochs argument of a direct fit call
MaxSamples == 1        \* size of a non-empty split of a direct fit call
LossStart == 40        \* validation loss of the first epoch, in units
MaxNaNOnset == 2       \* latest epoch at which the validation loss turns NaN
MaxRows == 3           \* data rows of a CSV text
MaxStreams == 2        \* largest streams value of a row
MaxTrackIds == 3       \* distinct track ids a CSV text can name
MaxDates == 12         \* distinct dates of an uploaded file
MaxWindowTracks == 2   \* tracks of a CSV text with dates
MaxLoads == 2          \* texts one DataLoader reads
MaxScoreSamples == 2   \* rows of the tensors handed to an accuracy method
MaxScoreTracks == 2    \* tracks of the tensors handed to an accuracy method
MaxAccuracy == 2       \* largest accuracy evaluate reports, in hundredths
MaxShuffleSamples == 1 \* samples of a tensor handed to shuffleFeature

\* Program constants
patience == 15         \* src/data-loader.js:326
OutputUnits == 30      \* units of the sigmoid layer, src/data-loader.js:300
InputFeatures == 30    \* inputShape = [7, 30], src/data-loader.js:260
Threshold == 5         \* 0.5 in tenths, src/data-loader.js:428 and :472
TopN == 10             \* src/data-loader.js:66
windowSize == 7        \* src/data-loader.js:154
Horizon == 3           \* src/data-loader.js:156
StandardEpochs == 100  \* src/app.js:107
AdvancedEpochs == 200  \* src/app.js:112
LegacyEpochs == 50     \* src/unnamed/part_000:93
ShuffleTracks == 10    \* src/gru.js:262

Null == [kind |-> "null"]
Live == [kind |-> "live"]
Copy(w) == [kind |-> "copy", val |-> w]

\* Infinity (src/data-loader.js:270, 322) and NaN, as ranks outside the
\* finite losses 0 .. LossStart + 200
Infinity == LossStart + 1000
NaN == 0 - 1

\* valLoss < this.bestValLoss (line 349); any comparison with NaN is false
Less(a, b) == a # NaN /\ b # NaN /\ a < b

----------------------------------------------------------------------------
\* GRUModel (src/data-loader.js:259-519)

\* The methods class GRUModel defines (lines 260-518)
GRUModelMethods ==
    {"buildModel", "fit", "predict", "evaluate", "computeTrackSpecificAccuracy",
     "computeConsistentAccuracy", "getModelSummary", "saveModel", "loadModel",
     "dispose"}

\* this.model.getWeights() (line 352). LayersModel.getWeights returns what
\* LayerVariable.read returns for each weight; the source keeps that value
\* without cloning it, so whether this.bestWeights is a snapshot or the live
\* variables is the backend's choice, not the source's.
GetWeights(w) == IF getWeightsLive THEN Live ELSE Copy(w)

\* this.model.setWeights(this.bestWeights) (line 358): the parameters
\* afterwards, w being the parameters before
Restored(bw, w) == IF bw = Live THEN w ELSE bw.val

\* a comparison that also takes a loss equal to the best one
ImprovesOnTie(valLoss, best) == valLoss # NaN /\ valLoss <= best

\* if (valLoss < this.bestValLoss) (line 349)
Improves(valLoss, best) == Less(valLoss, best)

\* patienceCounter++; if (patienceCounter >= patience) (lines 355-356)
StopsEarly(better, counter) == ~better /\ counter >= patience

\* document.dispatchEvent(event) (lines 363-373), not reached after the
\* break of line 359
Dispatched(evts, e, stop) == IF stop THEN evts ELSE Append(evts, e)

\* a loop that gives up one epoch short of epochs
LoopEndsShort(e, n) == e + 1 < n

\* for (let epoch = 0; epoch < epochs; epoch++) (line 331)
LoopContinues(e, n) == e < n

\* What this.model.fit (lines 332-337) does with the tensors x. The input
\* width must be that of the built network (lines 279, 300). fit makes no
\* check of its own for an empty split: the backend is called all the same,
\* its epoch yields no loss, and it or the read of history.history.loss[0]
\* (line 339) throws.
BackendOutcomes(x) ==
    IF 3 * x.tracks # OutputUnits THEN {"throw"}
    ELSE IF x.train = 0 \/ x.val = 0 THEN {"throw"}
    ELSE {"ok"}

\* The directions the validation loss of the coming epoch may take
Dirs == {0 - 1, 0, 1}

\* fit, from its call to its first await (lines 317-332)
FitBegin(x, n) ==
    /\ model' = "built"
    /\ weights' = IF model = "null" THEN 0 ELSE weights
    /\ bestValLoss' = Infinity
    /\ bestWeights' = Null
    /\ history' = <<>>
    /\ patienceCounter' = 0
    /\ epoch' = 0
    /\ epochs' = n
    /\ X' = x
    /\ events' = <<>>
    /\ fitPc' = IF LoopContinues(0, n) THEN "epoch" ELSE "done_max"
    /\ inFlight' = IF LoopContinues(0, n) THEN inFlight + 1 ELSE inFlight
    /\ envDir' = 0
    /\ changes' = 0
    /\ UNCHANGED <<lastCall, getWeightsLive>>

\* One iteration of the loop, from the return of this.model.fit with
\* validation loss valLoss to the next await or to the end of fit
\* (lines 339-382)
FitIteration(valLoss) ==
    LET e == epoch + 1
        better == Improves(valLoss, bestValLoss)
        counter == IF better THEN 0 ELSE patienceCounter + 1
        stop == StopsEarly(better, counter)
    IN  /\ history' = Append(history, valLoss)
        /\ bestValLoss' = IF better THEN valLoss ELSE bestValLoss
        /\ patienceCounter' = counter
        /\ bestWeights' = IF better THEN GetWeights(e) ELSE bestWeights
        /\ events' = Dispatched(events, e, stop)
        /\ IF stop
           THEN /\ epoch' = epoch
                /\ IF bestWeights = Null
                   THEN weights' = e /\ fitPc' = "error"
                   ELSE weights' = Restored(bestWeights, e) /\ fitPc' = "done_early"
           ELSE /\ epoch' = epoch + 1
                /\ weights' = e
                /\ fitPc' = IF LoopContinues(epoch + 1, epochs)
                            THEN "epoch" ELSE "done_max"
        /\ inFlight' = IF fitPc' = "epoch" THEN inFlight ELSE inFlight - 1
        /\ UNCHANGED <<model, epochs, X, lastCall, getWeightsLive>>

\* this.model.fit throws: fit rejects with its error (no catch in fit)
FitThrows ==
    /\ fitPc' = "error"
    /\ inFlight' = inFlight - 1
    /\ UNCHANGED <<model, weights, bestWeights, bestValLoss, history,
                   patienceCounter, epoch, epochs, events, X, lastCall, envVars>>

\* whether the validation loss of the latest epoch was NaN
Diverged == history # <<>> /\ history[Len(history)] = NaN

\* The resumption of fit after await this.model.fit (line 332); the
\* validation loss changes direction at most c times in a run. A training
\* that diverges reports the loss NaN, from one of the first epochs on and
\* for every epoch after it.
FitResume(c) ==
    /\ fitPc = "epoch"
    /\ \E o \in BackendOutcomes(X) :
          \/ o = "throw" /\ FitThrows
          \/ /\ o = "ok"
             /\ Diverged \/ Len(history) < MaxNaNOnset
             /\ UNCHANGED <<envDir, changes>>
             /\ FitIteration(NaN)
          \/ /\ o = "ok"
             /\ ~Diverged
             /\ \E d \in Dirs :
                   /\ history = <<>> => d = 0
                   /\ changes' = IF Len(history) >= 2 /\ d # envDir
                                 THEN changes + 1 ELSE changes
                   /\ changes' <= c
                   /\ envDir' = d
                   /\ FitIteration(IF history = <<>> THEN LossStart
                                   ELSE history[Len(history)] + d)

\* A call of method m on the GRUModel object (predict: lines 384-389,
\* evaluate: lines 391-407); a method the class does not define is not a
\* function
CallResultUnguarded(m, mdl) ==
    IF m \notin GRUModelMethods THEN "TypeError" ELSE "value"

\* if (!this.model) throw new Error('Model not built or loaded')
\* (lines 385-387, 392-394)
CallResult(m, mdl) ==
    IF m \notin GRUModelMethods THEN "TypeError"
    ELSE IF mdl = "null" THEN "Error"
    ELSE "value"

Call(m) ==
    /\ lastCall' = [op |-> m,
                    result |-> CallResult(m, model),
                    during |-> fitPc = "epoch"]
    /\ UNCHANGED <<model, weights, bestWeights, bestValLoss, history,
                   patienceCounter, epoch, epochs, fitPc, inFlight, events, X>>

----------------------------------------------------------------------------
\* SpecFit: one GRUModel, called directly

FitInputs ==
    [train : {0, MaxSamples}, val : {0, MaxSamples}, tracks : {TopN - 1, TopN}]

EpochsInputs == {n \in 0..MaxEpochs : n <= 2 \/ n >= patience}

GruInit ==
    /\ model = "null"
    /\ weights = 0
    /\ bestWeights = Null
    /\ bestValLoss = Infinity
    /\ history = <<>>
    /\ patienceCounter = 0
    /\ epoch = 0
    /\ epochs = 0
    /\ fitPc = "idle"
    /\ inFlight = 0
    /\ events = <<>>
    /\ X = [train |-> 0, val |-> 0, tracks |-> 0]
    /\ lastCall = [op |-> "none", result |-> "none", during |-> FALSE]
    /\ envDir = 0
    /\ changes = 0

AppIdle ==
    /\ variant = "none"
    /\ isTraining = FALSE
    /\ trainingData = Null
    /\ loader = Null
    /\ notification = "none"
    /\ request = "none"
    /\ evalPc = "idle"

LoaderIdle ==
    /\ loaded = FALSE
    /\ data = <<>>
    /\ tracks = {}
    /\ selectedTracks = <<>>
    /\ trackMetadata = <<>>
    /\ metadataKeys = <<>>
    /\ loads = 0
    /\ ingested = <<>>
    /\ lastN = 0
    /\ dates = {}
    /\ normalized = <<>>
    /\ samples = <<>>
    /\ targets = <<>>
    /\ anchors = <<>>
    /\ X_train = Null
    /\ y_train = Null
    /\ X_test = Null
    /\ y_test = Null
    /\ score = [op |-> "none"]
    /\ shuffle = [pc |-> "idle"]
    /\ insight = [op |-> "none"]

InitFit == GruInit /\ getWeightsLive \in BOOLEAN /\ AppIdle /\ LoaderIdle

\* a caller that awaits each fit before the next
ApiFit ==
    /\ fitPc # "epoch"
    /\ \E x \in FitInputs, n \in EpochsInputs : FitBegin(x, n)
    /\ UNCHANGED <<appVars, loaderVars,
                   windowVars, scoreVars, insightVars>>

ApiFitResume == FitResume(MaxChanges) /\ UNCHANGED <<appVars, loaderVars,
                   windowVars, scoreVars, insightVars>>

ApiPredict == Call("predict") /\ UNCHANGED <<envVars, appVars, loaderVars,
                   windowVars, scoreVars, insightVars>>

ApiEvaluate == Call("evaluate") /\ UNCHANGED <<envVars, appVars, loaderVars,
                   windowVars, scoreVars, insightVars>>

ApiPredictWithUncertainty ==
    Call("predictWithUncertainty") /\ UNCHANGED <<envVars, appVars, loaderVars,
                   windowVars, scoreVars, insightVars>>

NextFit ==
    \/ ApiFit
    \/ ApiFitResume
    \/ ApiPredict
    \/ ApiEvaluate
    \/ ApiPredictWithUncertainty

SpecFit == InitFit /\ [][NextFit]_vars

----------------------------------------------------------------------------
\* MusicPopularityApp: src/app.js (variant "app") and src/unnamed/part_000
\* (variant "part000"), both over the DataLoader and GRUModel of
\* src/data-loader.js

Min(a, b) == IF a < b THEN a ELSE b

\* The methods class DataLoader defines (src/data-loader.js:2-256)
DataLoaderMethods ==
    {"loadCSV", "parseCSV", "parseCSVLine", "selectTopTracks",
     "normalizeFeatures", "createSlidingWindows", "createSample", "createTarget",
     "splitData", "getTrainingData", "dispose"}

\* showNotification (src/app.js:440-452, part_000:362-372)
Notify(type) == notification' = type

\* The number of (sample, target) pairs createSlidingWindows builds from d
\* distinct dates (src/data-loader.js:156)
WindowCount(d) == IF d - Horizon > windowSize THEN d - Horizon - windowSize ELSE 0

\* Math.floor(samples.length * trainRatio), trainRatio = 0.8
\* (src/data-loader.js:231-232)
SplitIndex(n) == (n * 8) \div 10

\* splitData (src/data-loader.js:231-238): tf.tensor3d of an empty slice
\* throws, and then no tensor of the loader has been replaced
SplitThrows(n) == SplitIndex(n) = 0 \/ n - SplitIndex(n) = 0

\* a file too short for two windows, and one of MaxDates dates
FileDates == {windowSize + Horizon + 1, MaxDates}
FileTracks == {TopN - 1, TopN}

\* handleFileUpload(file) for a file with d distinct dates and t distinct
\* tracks (src/app.js:43-66, part_000:36-51)
HandleFileUpload ==
    \E d \in FileDates, t \in FileTracks :
        LET n == WindowCount(d)
            built == ~SplitThrows(n)
            tensors == [train |-> SplitIndex(n), val |-> n - SplitIndex(n),
                        tracks |-> Min(t, TopN)]
        IN  /\ loader' = IF built THEN tensors ELSE loader
            /\ IF variant = "app"
               THEN \* this.dataLoader.validateData() (src/app.js:51)
                    /\ trainingData' =
                          IF built /\ "validateData" \in DataLoaderMethods
                          THEN tensors ELSE trainingData
                    /\ Notify(IF built /\ "validateData" \in DataLoaderMethods
                              THEN "success" ELSE "error")
               ELSE /\ trainingData' = trainingData
                    /\ Notify(IF built THEN "success" ELSE "error")
            /\ UNCHANGED <<variant, isTraining, request, evalPc, gruVars, envVars,
                           loaderVars,
                   windowVars, scoreVars, insightVars>>

\* a handler without the guard
RejectsNever(training) == FALSE

\* if (this.isTraining) (src/app.js:116, part_000:80)
Rejects(training) == training

\* What a rejected request shows (src/app.js:117; part_000:80 shows nothing)
RejectionNotice(v) == IF v = "app" THEN "warning" ELSE "none"

\* The buttons of each app and the epochs they ask for (src/app.js:106-113,
\* part_000:93)
Buttons(v) == IF v = "app" THEN {"trainModel", "advancedTrain"} ELSE {"trainModel"}

EpochsOf(v, b) ==
    IF v = "app"
    THEN (IF b = "advancedTrain" THEN AdvancedEpochs ELSE StandardEpochs)
    ELSE LegacyEpochs

\* a finally block that leaves the flag as it finds it
FinallyKeeps(training) == training

\* finally { this.isTraining = false; } (src/app.js:150-152,
\* part_000:100-102)
Finally(training) == FALSE

\* this.isTraining when a request without data throws: part_000 has set it
\* (line 83) before it looks for the data, src/app.js sets it after
\* (line 126)
FlagAtDataCheck(v, training) == IF v = "part000" THEN TRUE ELSE training

\* The tensors a training request finds (src/app.js:122, part_000:84-86)
TrainTensors(v) == IF v = "app" THEN trainingData ELSE loader

\* trainModel / advancedTrainModel, up to the await of this.model.fit
\* (src/app.js:115-142, part_000:79-93)
TrainModel ==
    \E b \in Buttons(variant) :
        IF Rejects(isTraining)
        THEN /\ request' = "rejected"
             /\ IF RejectionNotice(variant) = "none"
                THEN notification' = notification
                ELSE Notify(RejectionNotice(variant))
             /\ UNCHANGED <<variant, isTraining, trainingData, loader, evalPc,
                            gruVars, envVars, loaderVars,
                   windowVars, scoreVars, insightVars>>
        ELSE IF TrainTensors(variant) = Null
        THEN \* throw, catch, finally
             /\ request' = "nodata"
             /\ Notify("error")
             /\ isTraining' = Finally(FlagAtDataCheck(variant, isTraining))
             /\ UNCHANGED <<variant, trainingData, loader, evalPc, gruVars,
                            envVars, loaderVars,
                   windowVars, scoreVars, insightVars>>
        ELSE /\ request' = "started"
             /\ isTraining' = TRUE
             /\ FitBegin(TrainTensors(variant), EpochsOf(variant, b))
             /\ UNCHANGED <<variant, trainingData, loader, notification, evalPc,
                            loaderVars,
                   windowVars, scoreVars, insightVars>>

\* One epoch of the fit a training request awaits and, when fit settles,
\* the rest of the request: notification, then finally (src/app.js:144-154,
\* part_000:95-102)
TrainResume ==
    /\ FitResume(AppMaxChanges)
    /\ IF fitPc' = "epoch"
       THEN UNCHANGED <<isTraining, notification>>
       ELSE /\ Notify(IF fitPc' = "error" THEN "error" ELSE "success")
            /\ isTraining' = Finally(isTraining)
    /\ UNCHANGED <<variant, trainingData, loader, request, evalPc, loaderVars,
                   windowVars, scoreVars, insightVars>>

\* The tensors an evaluation request finds (src/app.js:277, part_000:198)
EvalTensors(v) == IF v = "app" THEN trainingData ELSE loader

\* evaluateModel up to its first await (src/app.js:275-283,
\* part_000:195-200): this.model.evaluate computes on the parameters as
\* they are, then awaits the result's data
EvaluateModel ==
    /\ evalPc = "idle"
    /\ IF variant = "app" /\ EvalTensors(variant) = Null
       THEN Notify("error") /\ UNCHANGED <<evalPc, gruVars>>
       ELSE IF model = "built" /\ EvalTensors(variant) = Null
       THEN Notify("error") /\ UNCHANGED <<evalPc, gruVars>>
       ELSE /\ Call("evaluate")
            /\ IF lastCall'.result = "value"
               THEN evalPc' = "awaitData" /\ notification' = notification
               ELSE evalPc' = "idle" /\ Notify("error")
    /\ UNCHANGED <<variant, isTraining, trainingData, loader, request, envVars,
                   loaderVars,
                   windowVars, scoreVars, insightVars>>

\* The prediction method evaluateModel calls next (src/app.js:286,
\* part_000:201)
PredictionMethod(v) == IF v = "app" THEN "predictWithUncertainty" ELSE "predict"

\* The rest of evaluateModel (src/app.js:286-314, part_000:201-218). In
\* part_000 the result of computeTrackSpecificAccuracy is used as a Map
\* (part_000:225); the GRUModel of src/data-loader.js returns an object
\* (lines 465-468), so displayEvaluationResults throws.
EvaluateResume ==
    /\ evalPc = "awaitData"
    /\ Call(PredictionMethod(variant))
    /\ Notify("error")
    /\ evalPc' = "idle"
    /\ UNCHANGED <<variant, isTraining, trainingData, loader, request, envVars,
                   loaderVars,
                   windowVars, scoreVars, insightVars>>

InitApp ==
    /\ GruInit
    /\ getWeightsLive \in BOOLEAN
    /\ LoaderIdle
    /\ variant \in {"app", "part000"}
    /\ isTraining = FALSE
    /\ trainingData = Null
    /\ loader = Null
    /\ notification = "none"
    /\ request = "none"
    /\ evalPc = "idle"

Next ==
    \/ HandleFileUpload
    \/ TrainModel
    \/ TrainResume
    \/ EvaluateModel
    \/ EvaluateResume

Spec == InitApp /\ [][Next]_vars

\* The same app on a backend that settles every epoch it is asked for: the
\* promise of this.model.fit (src/data-loader.js:332) resolves or rejects,
\* and the event loop then resumes fit and the request awaiting it
FairSpec == Spec /\ WF_vars(TrainResume)

----------------------------------------------------------------------------
\* SpecSelect: a fresh DataLoader reads one CSV text and is then asked for
\* selections (src/data-loader.js:30-122)

\* The entries parseCSV pushes (lines 46-60): rows with a track_id and a
\* date; streams is parseFloat(..) || 0, a float >= 0
Rows == [track_id : 1..MaxTrackIds, streams : 0..MaxStreams]

\* Track ids are opaque strings that the code only compares for equality, so
\* a text names its tracks 1, 2, .. in the order of their first rows
FirstUse(rows) ==
    \A i \in DOMAIN rows :
        \/ rows[i].track_id = 1
        \/ \E j \in 1..(i - 1) : rows[j].track_id + 1 >= rows[i].track_id

CsvTexts == {rows \in UNION {[1..k -> Rows] : k \in 0..MaxRows} : FirstUse(rows)}

SelectInputs == 0..(MaxTrackIds + 1)

Range(s) == {s[i] : i \in DOMAIN s}

\* The keys of trackStreams in insertion order: the track ids of d by first
\* appearance (lines 93-96; a Map iterates in insertion order)
RECURSIVE Keys(_)
Keys(d) ==
    IF d = <<>> THEN <<>>
    ELSE LET k == Keys(SubSeq(d, 1, Len(d) - 1))
             t == d[Len(d)].track_id
         IN  IF t \in Range(k) THEN k ELSE Append(k, t)

\* trackStreams.get(t): current + entry.streams over the entries of t
\* (lines 94-95)
RECURSIVE Total(_, _)
Total(d, t) ==
    IF d = <<>> THEN 0
    ELSE Total(SubSeq(d, 1, Len(d) - 1), t)
         + (IF d[Len(d)].track_id = t THEN d[Len(d)].streams ELSE 0)

\* Array.from(trackStreams.entries()) (line 99)
Entries(d) ==
    LET k == Keys(d)
    IN  [i \in DOMAIN k |-> [id |-> k[i], total |-> Total(d, k[i])]]

\* a comparator that ranks by ascending total
CompareAscending(a, b) == a.total - b.total

\* (a, b) => b[1] - a[1] (line 100)
Compare(a, b) == b.total - a.total

\* Array.prototype.sort with Compare: a stable sort, so x, which followed
\* the elements of s in the array, goes after those it does not precede
Insert(s, x) ==
    LET k == Cardinality({i \in DOMAIN s : Compare(s[i], x) <= 0})
    IN  SubSeq(s, 1, k) \o <<x>> \o SubSeq(s, k + 1, Len(s))

RECURSIVE Sort(_)
Sort(s) ==
    IF s = <<>> THEN <<>>
    ELSE Insert(Sort(SubSeq(s, 1, Len(s) - 1)), s[Len(s)])

\* .slice(0, n) for n >= 0 (line 101)
Slice(s, n) == SubSeq(s, 1, Min(n, Len(s)))

\* sortedTracks (lines 99-102)
SortedTracks(d, n) ==
    LET top == Slice(Sort(Entries(d)), n)
    IN  [i \in DOMAIN top |-> top[i].id]

\* selectTopTracks(n) on this.data = d (lines 90-122)
SelectTopTracksOn(d, n) ==
    LET sel == SortedTracks(d, n)
        kept == SelectSeq(d, LAMBDA e : e.track_id \in Range(sel))
    IN  /\ ingested' = d
        /\ lastN' = n
        /\ selectedTracks' = sel
        /\ data' = kept
        /\ trackMetadata' =
              [t \in (DOMAIN trackMetadata) \cup Range(sel) |->
                  IF t \in Range(sel)
                  THEN [id |-> t, totalStreams |-> Total(d, t)]
                  ELSE trackMetadata[t]]
        \* Map.set on a key the Map holds leaves the key where it is
        /\ metadataKeys' =
              metadataKeys
              \o SelectSeq(sel, LAMBDA t : t \notin Range(metadataKeys))

\* parseCSV(csvText) for a text whose data rows are rows (lines 30-68),
\* selectTopTracks(10) included
ParseCSV ==
    /\ ~loaded
    /\ \E rows \in CsvTexts :
          /\ tracks' = tracks \cup {rows[i].track_id : i \in DOMAIN rows}
          /\ SelectTopTracksOn(rows, TopN)
    /\ loaded' = TRUE
    /\ loads' = loads + 1
    /\ UNCHANGED <<gruVars, envVars, appVars,
                   windowVars, scoreVars, insightVars>>

\* selectTopTracks(n), called on the loaded data
SelectTopTracks ==
    /\ loaded
    /\ \E n \in SelectInputs : SelectTopTracksOn(data, n)
    /\ UNCHANGED <<loaded, loads, tracks, gruVars, envVars, appVars,
                   windowVars, scoreVars, insightVars>>

\* no network is built here: the backend's choice is left at one value
InitSelect == GruInit /\ getWeightsLive = FALSE /\ AppIdle /\ LoaderIdle

NextSelect ==
    \/ ParseCSV
    \/ SelectTopTracks

SpecSelect == InitSelect /\ [][NextSelect]_vars

----------------------------------------------------------------------------
\* SpecWindows: a fresh DataLoader reads one CSV text with dates and
\* features and builds its sliding windows (src/data-loader.js:30-238).
\* Dates are ISO day strings, which sort() orders as the calendar does;
\* they are numbered 1, 2, .. here.

Tensor(v) == [kind |-> "tensor", values |-> v]

\* an optional value: a function's null result is None
None == <<>>
Some(x) == <<x>>

RECURSIVE Gcd(_, _)
Gcd(a, b) == IF b = 0 THEN a ELSE Gcd(b, a % b)

\* the number n / d, d > 0, in lowest terms
Ratio(n, d) == [num |-> n \div Gcd(n, d), den |-> d \div Gcd(n, d)]

Zero == Ratio(0, 1)
Half == Ratio(1, 2)

\* a field that was never assigned
Undefined == [kind |-> "undefined"]

\* The rows of the texts read here. Track t has a row for each date d; the
\* streams of odd tracks rise and fall, those of even tracks are flat, and
\* energy is flat for every track
BaseStreams(t, d) == IF t % 2 = 0 THEN 1 ELSE (d + t) % (MaxStreams + 1)
BaseDanceability(t, d) == (d * t) % 3
BaseEnergy(t, d) == 1

BaseRow(d, t) ==
    [date |-> d, track_id |-> t, streams |-> BaseStreams(t, d),
     danceability |-> BaseDanceability(t, d), energy |-> BaseEnergy(t, d)]

\* the rows in file order: date by date, track by track
BaseRows(nd, nt) ==
    [k \in 1..(nd * nt) |-> BaseRow(((k - 1) \div nt) + 1, ((k - 1) % nt) + 1)]

\* the dates a text departs from the base rows on: the first date, which
\* only a window holds, the first two anchors, and the last date
EditDates(nd) == {1, windowSize + 1, windowSize + 2, nd} \cap (1..nd)

\* One departure from the base rows: none, a missing row, or a second row
\* for a (track_id, date) at the end of the text
Edits(nd, nt) ==
    {[kind |-> "plain", date |-> 0, track_id |-> 0, streams |-> 0]}
    \cup {[kind |-> k, date |-> d, track_id |-> t, streams |-> v] :
             k \in {"dup"}, d \in EditDates(nd), t \in 1..nt,
             v \in 0..MaxStreams}
    \cup {[kind |-> k, date |-> d, track_id |-> t, streams |-> 0] :
             k \in {"missing"}, d \in EditDates(nd), t \in 1..nt}

FileRows(nd, nt, e) ==
    IF e.kind = "missing"
    THEN SelectSeq(BaseRows(nd, nt),
                   LAMBDA r : ~(r.date = e.date /\ r.track_id = e.track_id))
    ELSE IF e.kind = "dup"
    THEN Append(BaseRows(nd, nt),
                [BaseRow(e.date, e.track_id) EXCEPT !.streams = e.streams])
    ELSE BaseRows(nd, nt)

\* too few dates for a window, and the last three sizes up to MaxDates
WindowFileDates == {windowSize} \cup ((MaxDates - 2)..MaxDates)

\* parseCSV(csvText) for a text whose data rows are rows (lines 30-68):
\* this.data starts empty (line 43), this.tracks and this.dates are added
\* to (lines 58-59)
ParseRows(rows) ==
    /\ tracks' = tracks \cup {rows[i].track_id : i \in DOMAIN rows}
    /\ dates' = dates \cup {rows[i].date : i \in DOMAIN rows}
    /\ SelectTopTracksOn(rows, TopN)
    /\ loaded' = TRUE
    /\ loads' = loads + 1

\* parseCSV(csvText) for a text with dated rows, on a fresh DataLoader
LoadCSV ==
    /\ ~loaded
    /\ \E nd \in WindowFileDates, nt \in 1..MaxWindowTracks :
          \E e \in Edits(nd, nt) : ParseRows(FileRows(nd, nt, e))
    /\ UNCHANGED <<normalized, samples, targets, anchors, X_train, y_train,
                   X_test, y_test, gruVars, envVars, appVars, scoreVars, insightVars>>

\* Math.min(...values), Math.max(...values) (lines 132-133)
MinOf(S) == CHOOSE x \in S : \A y \in S : x <= y
MaxOf(S) == CHOOSE x \in S : \A y \in S : x >= y

\* trackData.map(d => d[feature]) (lines 127, 131)
FeatureValues(d, t, f) == {d[i][f] : i \in {j \in DOMAIN d : d[j].track_id = t}}

\* a scaling that maps a flat series to 0
ScaleFlatToZero(v, min, max) ==
    IF max > min THEN Ratio(v - min, max - min) ELSE Zero

\* (entry[feature] - min) / (max - min) if max > min, else 0.5
\* (lines 135-143)
Scale(v, min, max) == IF max > min THEN Ratio(v - min, max - min) ELSE Half

NormalizedField(d, e, f) ==
    Scale(e[f], MinOf(FeatureValues(d, e.track_id, f)),
          MaxOf(FeatureValues(d, e.track_id, f)))

\* normalizeFeatures (lines 124-146): the fields it gives each entry
NormalizeFeatures(d, sel) ==
    LET fields == [i \in DOMAIN d |->
            IF d[i].track_id \in Range(sel)
            THEN [streams |-> NormalizedField(d, d[i], "streams"),
                  danceability |-> NormalizedField(d, d[i], "danceability"),
                  energy |-> NormalizedField(d, d[i], "energy")]
            ELSE [streams |-> Undefined, danceability |-> Undefined,
                  energy |-> Undefined]]
    IN  SubSeq(fields, 1, Len(d))

\* this.data.find(d => d.date === date && d.track_id === trackId): the
\* index of the first such entry, 0 if there is none (lines 181, 208, 218)
Find(d, date, t) ==
    LET found == {i \in DOMAIN d : d[i].date = date /\ d[i].track_id = t}
    IN  IF found = {} THEN 0 ELSE MinOf(found)

\* entry.streams_normalized || 0 (lines 184-186)
OrZero(x) == IF x = Undefined THEN Zero ELSE x

\* a day that leaves out a track without a record
DaySliceSkipsMissing(d, nrm, date, t) ==
    LET i == Find(d, date, t)
    IN  IF i # 0
        THEN <<OrZero(nrm[i].streams), OrZero(nrm[i].danceability),
               OrZero(nrm[i].energy)>>
        ELSE <<>>

\* what one track contributes to a day (lines 181-191)
DaySlice(d, nrm, date, t) ==
    LET i == Find(d, date, t)
    IN  IF i # 0
        THEN <<OrZero(nrm[i].streams), OrZero(nrm[i].danceability),
               OrZero(nrm[i].energy)>>
        ELSE <<Zero, Zero, Zero>>

\* dayFeatures for one date (lines 178-192)
RECURSIVE DayFeatures(_, _, _, _)
DayFeatures(d, nrm, sel, date) ==
    IF sel = <<>> THEN <<>>
    ELSE DayFeatures(d, nrm, SubSeq(sel, 1, Len(sel) - 1), date)
         \o DaySlice(d, nrm, date, sel[Len(sel)])

\* createSample(windowDates, currentDate) (lines 174-200)
CreateSample(d, nrm, sel, windowDates) ==
    LET days == [j \in DOMAIN windowDates |->
                    DayFeatures(d, nrm, sel, windowDates[j])]
        sample == SelectSeq(days, LAMBDA v : Len(v) = Len(sel) * 3)
    IN  IF Len(sample) = Len(windowDates) THEN Some(sample) ELSE None

\* Array.from(this.dates).sort() (lines 151, 204-205)
RECURSIVE SortedDates(_)
SortedDates(ds) ==
    IF ds = {} THEN <<>>
    ELSE Append(SortedDates(ds \ {MaxOf(ds)}), MaxOf(ds))

\* a comparison that also counts equal streams as a rise
RisesOrStays(future, current) == future >= current

\* futureEntry.streams > currentStreams (line 220)
Rises(future, current) == future > current

\* the three entries of one track (lines 207-225); i is the 1-based position
\* of currentDate in sorted, and sortedDates[..] past the end is undefined
TrackTarget(d, sorted, i, t) ==
    LET cur == Find(d, sorted[i], t)
    IN  IF cur = 0 THEN <<0, 0, 0>>
        ELSE [offset \in 1..Horizon |->
                 LET fut == IF i + offset <= Len(sorted)
                            THEN Find(d, sorted[i + offset], t) ELSE 0
                 IN  IF fut # 0 /\ Rises(d[fut].streams, d[cur].streams)
                     THEN 1 ELSE 0]

RECURSIVE TargetOf(_, _, _, _)
TargetOf(d, sorted, i, sel) ==
    IF sel = <<>> THEN <<>>
    ELSE TargetOf(d, sorted, i, SubSeq(sel, 1, Len(sel) - 1))
         \o TrackTarget(d, sorted, i, sel[Len(sel)])

\* createTarget(currentDate) (lines 202-229), currentDate = sorted[i]
CreateTarget(d, sel, sorted, i) ==
    LET target == TargetOf(d, sorted, i, sel)
    IN  IF Len(target) = Len(sel) * 3 THEN Some(target) ELSE None

\* a window that takes in the anchor day as well
WindowDatesWithAnchor(sorted, i) == SubSeq(sorted, i - windowSize + 1, i + 1)

\* sortedDates.slice(i - windowSize, i) for the 0-based index i (line 158)
WindowDates(sorted, i) == SubSeq(sorted, i - windowSize + 1, i)

\* a loop that runs one index too far
InLoopOneMore(i, n) == i <= n - Horizon

\* i < sortedDates.length - 3 (line 156)
InLoop(i, n) == i < n - Horizon

\* The loop of createSlidingWindows from the 0-based index i on
\* (lines 156-169): the pairs it pushes, each with its currentDate. Arrays
\* are truthy even when empty, so only null drops a pair.
RECURSIVE WindowLoop(_, _, _, _, _)
WindowLoop(d, nrm, sel, sorted, i) ==
    IF ~InLoop(i, Len(sorted)) THEN <<>>
    ELSE LET sample == CreateSample(d, nrm, sel, WindowDates(sorted, i))
             target == IF sample = None THEN None
                       ELSE CreateTarget(d, sel, sorted, i + 1)
             pushed == IF sample # None /\ target # None
                       THEN <<[sample |-> sample[1], target |-> target[1],
                               currentDate |-> sorted[i + 1]]>>
                       ELSE <<>>
         IN  pushed \o WindowLoop(d, nrm, sel, sorted, i + 1)

\* createSlidingWindows (lines 148-172) with normalizeFeatures (124-146)
\* and splitData (231-238); when splitData throws, no tensor was replaced
CreateSlidingWindows ==
    /\ loaded
    /\ LET nrm == NormalizeFeatures(data, selectedTracks)
           pairs == WindowLoop(data, nrm, selectedTracks, SortedDates(dates),
                               windowSize)
           smp == [k \in DOMAIN pairs |-> pairs[k].sample]
           tgt == [k \in DOMAIN pairs |-> pairs[k].target]
           splitIndex == SplitIndex(Len(pairs))
       IN  /\ normalized' = nrm
           /\ samples' = smp
           /\ targets' = tgt
           /\ anchors' = [k \in DOMAIN pairs |-> pairs[k].currentDate]
           /\ IF SplitThrows(Len(pairs))
              THEN UNCHANGED <<X_train, y_train, X_test, y_test>>
              ELSE /\ X_train' = Tensor(SubSeq(smp, 1, splitIndex))
                   /\ y_train' = Tensor(SubSeq(tgt, 1, splitIndex))
                   /\ X_test' = Tensor(SubSeq(smp, splitIndex + 1, Len(smp)))
                   /\ y_test' = Tensor(SubSeq(tgt, splitIndex + 1, Len(tgt)))
    /\ UNCHANGED <<loaderVars, dates, gruVars, envVars, appVars, scoreVars, insightVars>>

InitWindows == GruInit /\ getWeightsLive = FALSE /\ AppIdle /\ LoaderIdle

NextWindows ==
    \/ LoadCSV
    \/ CreateSlidingWindows

SpecWindows == InitWindows /\ [][NextWindows]_vars

----------------------------------------------------------------------------
\* SpecReload: one DataLoader reads one CSV text after another
\* (src/data-loader.js:14-68). The texts are the shortest and the longest
\* of SpecWindows, as they are or with a second row on their last date.

ReloadTexts ==
    UNION {{FileRows(nd, nt, e) :
               e \in {x \in Edits(nd, nt) : x.kind # "missing" /\ x.date \in {0, nd}}} :
           nd \in {windowSize, MaxDates}, nt \in 1..MaxWindowTracks}

\* loadCSV(file), on a DataLoader that may have read a file before
ReloadCSV ==
    /\ loads < MaxLoads
    /\ \E rows \in ReloadTexts : ParseRows(rows)
    /\ UNCHANGED <<normalized, samples, targets, anchors, X_train, y_train,
                   X_test, y_test, gruVars, envVars, appVars, scoreVars,
                   insightVars>>

NextReload == ReloadCSV

SpecReload == InitWindows /\ [][NextReload]_vars

----------------------------------------------------------------------------
\* SpecScore: one call of an accuracy method of GRUModel on a prediction
\* tensor and a label tensor of one shape (src/data-loader.js:409-483).
\* The methods read and write no field, so a behaviour holds one call.
\* Predictions are in tenths; quotients are exact.

\* the labels of n samples of k tracks: every second unit is 0 in every
\* sample, the others are 1 in every second sample
ScoreLabels(n, k) == [s \in 1..n |-> [u \in 1..(3 * k) |-> (s * u) % 2]]

\* the rows a model predicts: 0.4 or 0.6 for every unit, and also 0.5 for
\* those of the first track
UnitPredictions(k) ==
    {p \in [1..(3 * k) -> {Threshold - 1, Threshold, Threshold + 1}] :
        \A u \in 1..(3 * k) : u > 3 => p[u] # Threshold}

\* predictions and y_true of one shape, for the tracks of trackMetadata
ScoreInputs ==
    UNION {{[predictions |-> [s \in 1..n |-> p], y_true |-> ScoreLabels(n, k),
             tracks |-> k] : p \in UnitPredictions(k)} :
           n \in 1..MaxScoreSamples, k \in 1..MaxScoreTracks}

\* a threshold that counts 0.5 itself as a rise
BinaryFromThreshold(pred) == IF pred >= Threshold THEN 1 ELSE 0

\* pred > 0.5 ? 1 : 0 (line 428); predictions.greater(0.5) (line 472)
Binary(pred) == IF pred > Threshold THEN 1 ELSE 0

\* the number of cells among cs where the thresholded prediction equals
\* the label: correct++ (lines 431-438), binaryPreds.equal(y_true).sum()
\* (line 473)
Correct(pd, td, cs) ==
    Cardinality({c \in cs : Binary(pd[c[1]][c[2]]) = td[c[1]][c[2]]})

\* the cells with a label: actual !== undefined (line 431)
Counted(td, cs) == {c \in cs : c[2] \in DOMAIN td[c[1]]}

\* total > 0 ? (correct / total) * 100 : 0 (lines 443-446, 460)
Percent(correct, total) ==
    IF total > 0 THEN Ratio(correct * 100, total) ELSE Zero

\* the cells of track index k (from 1) at day offset h (from 1): predIdx =
\* trackIndex * 3 + dayOffset for every sampleIdx (lines 425-427)
DayCells(pd, k, h) == {<<sm, 3 * (k - 1) + h>> : sm \in DOMAIN pd}
TrackCells(pd, k) == UNION {DayCells(pd, k, h) : h \in 1..3}

\* what computeTrackSpecificAccuracy returns (lines 409-469)
TrackSpecificAccuracy(pd, td, m) ==
    LET acc(cs) == Percent(Correct(pd, td, Counted(td, cs)),
                           Cardinality(Counted(td, cs)))
    IN  [trackAccuracies |->
            [k \in 1..m |->
                [accuracy |-> acc(TrackCells(pd, k)),
                 dayAccuracies |-> [h \in 1..3 |-> acc(DayCells(pd, k, h))]]],
         dayAccuracies |->
            [h \in 1..3 |-> acc(UNION {DayCells(pd, k, h) : k \in 1..m})]]

\* computeTrackSpecificAccuracy(predictions, y_true, trackMetadata)
\* (lines 409-469)
ComputeTrackSpecificAccuracy ==
    /\ score.op = "none"
    /\ \E in \in ScoreInputs :
          score' = [op |-> "computeTrackSpecificAccuracy",
                    predictions |-> in.predictions, y_true |-> in.y_true,
                    tracks |-> in.tracks,
                    result |-> TrackSpecificAccuracy(in.predictions,
                                                     in.y_true, in.tracks)]
    /\ UNCHANGED <<gruVars, envVars, appVars, loaderVars, windowVars,
                   insightVars>>

\* tf.size (line 474): a function a build of the library may or may not
\* export
TfSize == {"function", "undefined"}

\* every cell of a tensor
Cells(td) == {<<sm, u>> : sm \in DOMAIN td, u \in DOMAIN td[1]}

\* computeConsistentAccuracy(predictions, y_true) (lines 471-483): calling
\* an undefined tf.size throws a TypeError, which rejects the promise
ComputeConsistentAccuracy ==
    /\ score.op = "none"
    /\ \E in \in ScoreInputs, size \in TfSize :
          score' = [op |-> "computeConsistentAccuracy",
                    predictions |-> in.predictions, y_true |-> in.y_true,
                    tracks |-> in.tracks,
                    result |->
                       IF size = "undefined" THEN [kind |-> "TypeError"]
                       ELSE [kind |-> "number",
                             value |-> Ratio(Correct(in.predictions, in.y_true,
                                                     Cells(in.y_true)) * 100,
                                             Cardinality(Cells(in.y_true)))]]
    /\ UNCHANGED <<gruVars, envVars, appVars, loaderVars, windowVars,
                   insightVars>>

InitScore == GruInit /\ getWeightsLive = FALSE /\ AppIdle /\ LoaderIdle

NextScore ==
    \/ ComputeTrackSpecificAccuracy
    \/ ComputeConsistentAccuracy

SpecScore == InitScore /\ [][NextScore]_vars

----------------------------------------------------------------------------
\* SpecInsight: the analyses of MusicPopularityApp (src/gru.js:216-345),
\* each called once on arguments of its own: a behaviour holds one call.
\* Accuracies are in hundredths.

\* Array.prototype.sort, cmp[j, i] being what the comparator returns for
\* the elements j and i of s: a stable sort, so an element comes after
\* those the comparator puts before it and after the earlier ones it ties
\* with (src/gru.js:249, 333)
SortBy(s, cmp) ==
    LET rank(i) == 1 + Cardinality({j \in DOMAIN s :
                        \/ cmp[j, i] < 0
                        \/ cmp[j, i] = 0 /\ j < i})
    IN  [r \in DOMAIN s |-> s[CHOOSE i \in DOMAIN s : rank(i) = r]]

\* what GRUModel.evaluate returns for a built model: an object with the
\* fields loss and accuracy (src/gru.js:87-104, src/data-loader.js:391-407)
EvaluateReturns(acc) == [kind |-> "object", loss |-> 0, accuracy |-> acc]

\* results[i]: the element of an array, undefined for an object without a
\* property of that name (src/gru.js:223, 234)
AtIndex(results, i) ==
    IF results.kind = "array" THEN results.items[i + 1] ELSE Undefined

\* const features = ['Streams', 'Danceability', 'Energy'] (src/gru.js:228)
FeatureNames == <<"Streams", "Danceability", "Energy">>

\* Math.max(importance * 100, 0) (src/gru.js:239)
Importance(baselineAccuracy, shuffledAccuracy) ==
    IF baselineAccuracy - shuffledAccuracy > 0
    THEN baselineAccuracy - shuffledAccuracy ELSE 0

\* (a, b) => b.importance - a.importance (src/gru.js:249)
ByImportance(a, b) == b.importance - a.importance

\* what computeFeatureImportance returns (src/gru.js:216-254) when
\* this.model.evaluate reports the accuracy baseline for X_test and
\* shuffled[f] for X_test with feature f shuffled. Reading .data of
\* undefined throws a TypeError, and the catch returns null.
FeatureImportance(mdl, hasTest, baseline, shuffled) ==
    IF ~hasTest THEN Null
    ELSE IF CallResult("evaluate", mdl) # "value" THEN Null
    ELSE IF AtIndex(EvaluateReturns(baseline), 1) = Undefined THEN Null
    ELSE [kind |-> "array",
          items |->
             LET list == [f \in 1..3 |->
                            [feature |-> FeatureNames[f],
                             importance |-> Importance(baseline, shuffled[f])]]
             IN  SortBy(list, [j \in 1..3, i \in 1..3 |->
                                  ByImportance(list[j], list[i])])]

\* computeFeatureImportance() (src/gru.js:216-254)
ComputeFeatureImportance ==
    /\ insight.op = "none"
    /\ shuffle.pc = "idle"
    /\ \E mdl \in {"null", "built"}, hasTest \in BOOLEAN,
          baseline \in 0..MaxAccuracy, shuffled \in [1..3 -> 0..MaxAccuracy] :
          insight' = [op |-> "computeFeatureImportance", model |-> mdl,
                      X_test |-> hasTest, baseline |-> baseline,
                      shuffled |-> shuffled,
                      result |-> FeatureImportance(mdl, hasTest, baseline,
                                                   shuffled)]
    /\ UNCHANGED <<shuffle, gruVars, envVars, appVars, loaderVars, windowVars,
                   scoreVars>>

\* the sum of a sequence of integers
RECURSIVE SumSeq(_)
SumSeq(q) == IF q = <<>> THEN 0 ELSE SumSeq(SubSeq(q, 1, Len(q) - 1)) + q[Len(q)]

\* the probabilities a model predicts here, in tenths
BreakoutLevels == {1, 5, 9}

\* a row of predictions for k tracks: any level for the units of the first
\* track, the lowest or the highest for the others
BreakoutRows(k) ==
    {p \in [1..(3 * k) -> BreakoutLevels] :
        \A u \in 1..(3 * k) : u > 3 => p[u] # 5}

\* the row with the three units of every track in reverse order
Mirror(p) == [u \in DOMAIN p |-> p[u + 2 - 2 * ((u - 1) % 3)]]

\* predictions for n samples, all alike or every second one mirrored, with
\* the trackMetadata of their k tracks
BreakoutInputs ==
    UNION {{[predictions |-> [sm \in 1..n |->
                                 IF mirror /\ sm % 2 = 0 THEN Mirror(p) ELSE p],
             tracks |-> [k \in 1..kk |-> [id |-> k]]] :
               p \in BreakoutRows(kk), mirror \in {m \in BOOLEAN : m => n > 1}} :
           n \in 1..MaxScoreSamples, kk \in 1..MaxScoreTracks}

\* r > n / d for a quotient r (src/gru.js:341-343)
Exceeds(r, n, d) == r.num * d > n * r.den

\* a classification that takes a signal of 0 for a rise
CalculateRiskLevelFromZero(breakoutScore, confidence) ==
    IF Exceeds(breakoutScore, 1, 10) /\ Exceeds(confidence, 7, 10) THEN "low"
    ELSE IF Exceeds(breakoutScore, 5, 100) /\ Exceeds(confidence, 6, 10)
    THEN "medium"
    ELSE IF breakoutScore.num >= 0 THEN "high"
    ELSE "very-high"

\* calculateRiskLevel(breakoutScore, confidence) (src/gru.js:340-345)
CalculateRiskLevel(breakoutScore, confidence) ==
    IF Exceeds(breakoutScore, 1, 10) /\ Exceeds(confidence, 7, 10) THEN "low"
    ELSE IF Exceeds(breakoutScore, 5, 100) /\ Exceeds(confidence, 6, 10)
    THEN "medium"
    ELSE IF Exceeds(breakoutScore, 0, 1) THEN "high"
    ELSE "very-high"

\* a trend that takes an average of 0 for a rise
TrendFromZero(avgBreakoutScore) ==
    IF avgBreakoutScore.num >= 0 THEN "rising" ELSE "stable"

\* avgBreakoutScore > 0 ? 'rising' : 'stable' (src/gru.js:328)
Trend(avgBreakoutScore) ==
    IF avgBreakoutScore.num > 0 THEN "rising" ELSE "stable"

\* x * 100 (src/gru.js:326-327)
Times100(r) == Ratio(r.num * 100, r.den)

\* the entry of the track at trackIndex (from 1) (src/gru.js:296-331):
\* trendStrength and overallConfidence summed over the samples and divided
\* by sampleCount, predictions being in tenths
BreakoutEntry(pd, track, trackIndex) ==
    LET day(sm, h) == pd[sm][(trackIndex - 1) * 3 + h]
        trendStrength == [sm \in DOMAIN pd |->
            (day(sm, 3) - day(sm, 1)) * 2 + (day(sm, 2) - day(sm, 1))]
        overallConfidence == [sm \in DOMAIN pd |->
            day(sm, 1) + day(sm, 2) + day(sm, 3)]
        sampleCount == Len(pd)
        avgBreakoutScore == Ratio(SumSeq(trendStrength), 10 * sampleCount)
        avgConfidence == Ratio(SumSeq(overallConfidence), 30 * sampleCount)
    IN  [trackId |-> track.id,
         breakoutScore |-> Times100(avgBreakoutScore),
         confidence |-> Times100(avgConfidence),
         trend |-> Trend(avgBreakoutScore),
         riskLevel |-> CalculateRiskLevel(avgBreakoutScore, avgConfidence)]

\* (a, b) => b.breakoutScore - a.breakoutScore (src/gru.js:333)
ByBreakoutScore(a, b) ==
    b.breakoutScore.num * a.breakoutScore.den
        - a.breakoutScore.num * b.breakoutScore.den

\* detectBreakoutTracks(predictions, trainingData) (src/gru.js:291-338)
DetectBreakoutTracks ==
    /\ insight.op = "none"
    /\ shuffle.pc = "idle"
    /\ \E in \in BreakoutInputs :
          insight' = [op |-> "detectBreakoutTracks",
                      predictions |-> in.predictions, tracks |-> in.tracks,
                      result |->
                         LET list == [k \in DOMAIN in.tracks |->
                                        BreakoutEntry(in.predictions,
                                                      in.tracks[k], k)]
                         IN  SortBy(list,
                                    [j \in DOMAIN list, i \in DOMAIN list |->
                                        ByBreakoutScore(list[j], list[i])])]
    /\ UNCHANGED <<shuffle, gruVars, envVars, appVars, loaderVars, windowVars,
                   scoreVars>>

\* the signals and confidences calculateRiskLevel is called with, in
\* hundredths: at, next to and away from its thresholds
RiskSignals == {0 - 5, 0, 1, 5, 6, 10, 11}
RiskConfidences == {60, 61, 70, 71}

\* a call of calculateRiskLevel by itself (src/gru.js:340-345)
CallCalculateRiskLevel ==
    /\ insight.op = "none"
    /\ shuffle.pc = "idle"
    /\ \E sg \in RiskSignals, cf \in RiskConfidences :
          insight' = [op |-> "calculateRiskLevel",
                      breakoutScore |-> Ratio(sg, 100),
                      confidence |-> Ratio(cf, 100),
                      result |-> CalculateRiskLevel(Ratio(sg, 100),
                                                    Ratio(cf, 100))]
    /\ UNCHANGED <<shuffle, gruVars, envVars, appVars, loaderVars, windowVars,
                   scoreVars>>

\* an element of a JavaScript array that was never set, and the number a
\* tensor holds in its place
Hole == 0 - 2
HoleAsNumber(v) == IF v = Hole THEN NaN ELSE v

\* The tensors shuffleFeature is called with: n samples of one day, as wide
\* as k tracks need. Feature g of a track is 3 * g, and one more for the
\* first track of the first sample.
ShuffleTensor(n, k) ==
    [sm \in 1..n |-> <<[u \in 1..(3 * k) |->
        3 * ((u - 1) % 3) + (IF sm = 1 /\ u <= 3 THEN 1 ELSE 0)]>>]

ShuffleInputs ==
    {ShuffleTensor(n, k) : n \in 1..MaxShuffleSamples, k \in {TopN - 1, TopN}}

\* row[pos] for the 0-based pos: undefined beyond the length of the array
ReadAt(row, pos) == IF pos < Len(row) THEN row[pos + 1] ELSE Hole

\* row[pos] = v: an assignment beyond the length of the array extends it
WriteAt(row, pos, v) ==
    IF pos < Len(row) THEN [row EXCEPT ![pos + 1] = v]
    ELSE row \o [i \in 1..(pos - Len(row)) |-> Hole] \o <<v>>

\* the three statements of a swap (src/gru.js:271-273)
Swap(d, sm, day, pos, rsm, rday, rpos) ==
    LET temp == ReadAt(d[sm][day], pos)
        d1 == [d EXCEPT ![sm][day] = WriteAt(@, pos, ReadAt(d[rsm][rday], rpos))]
    IN  [d1 EXCEPT ![rsm][rday] = WriteAt(@, rpos, temp)]

\* tf.tensor3d(data) (src/gru.js:278)
Tensor3d(d) ==
    Tensor([sm \in DOMAIN d |-> [day \in DOMAIN d[sm] |->
        [u \in DOMAIN d[sm][day] |-> HoleAsNumber(d[sm][day][u])]]])

\* shuffleFeature(X, featureIndex), to its first swap (src/gru.js:256-262)
ShuffleFeature ==
    /\ shuffle.pc = "idle"
    /\ insight.op = "none"
    /\ \E x \in ShuffleInputs, f \in 0..2 :
          shuffle' = [pc |-> "loop", X |-> x, featureIndex |-> f, data |-> x,
                      sample |-> 1, day |-> 1, track |-> 0, result |-> Null]
    /\ UNCHANGED <<insight, gruVars, envVars, appVars, loaderVars, windowVars,
                   scoreVars>>

\* one iteration of the innermost loop of shuffleFeature, with what
\* Math.random chose, and the return after the last one
\* (src/gru.js:262-278)
ShuffleStep ==
    /\ shuffle.pc = "loop"
    /\ \E randomSample \in DOMAIN shuffle.data :
          \E randomDay \in DOMAIN shuffle.data[randomSample],
             randomTrack \in 0..(ShuffleTracks - 1) :
             LET d == Swap(shuffle.data, shuffle.sample, shuffle.day,
                           shuffle.track * 3 + shuffle.featureIndex,
                           randomSample, randomDay,
                           randomTrack * 3 + shuffle.featureIndex)
                 lastTrack == shuffle.track = ShuffleTracks - 1
                 lastDay == shuffle.day = Len(shuffle.data[shuffle.sample])
                 lastSample == shuffle.sample = Len(shuffle.data)
             IN  shuffle' =
                    IF lastTrack /\ lastDay /\ lastSample
                    THEN [shuffle EXCEPT !.pc = "done", !.data = d,
                                         !.result = Tensor3d(d)]
                    ELSE IF lastTrack /\ lastDay
                    THEN [shuffle EXCEPT !.data = d, !.track = 0, !.day = 1,
                                         !.sample = @ + 1]
                    ELSE IF lastTrack
                    THEN [shuffle EXCEPT !.data = d, !.track = 0,
                                         !.day = @ + 1]
                    ELSE [shuffle EXCEPT !.data = d, !.track = @ + 1]
    /\ UNCHANGED <<insight, gruVars, envVars, appVars, loaderVars, windowVars,
                   scoreVars>>

InitInsight == GruInit /\ getWeightsLive = FALSE /\ AppIdle /\ LoaderIdle

NextInsight ==
    \/ ComputeFeatureImportance
    \/ DetectBreakoutTracks
    \/ CallCalculateRiskLevel
    \/ ShuffleFeature
    \/ ShuffleStep

SpecInsight == InitInsight /\ [][NextInsight]_vars

----------------------------------------------------------------------------
\* Properties of MusicPopularityApp, checked under Spec

\* C1: at most one fit call is in flight at any time, and a training
\* request that arrives while isTraining is true calls no fit and leaves
\* isTraining true
C1_OneFitInFlight ==
    /\ [](inFlight <= 1)
    /\ [][(TrainModel /\ isTraining)
             => /\ isTraining'
                /\ inFlight' = inFlight
                /\ UNCHANGED <<fitPc, epoch, history, weights>>]_vars

\* a request has been rejected while a run is suspended in an epoch
C1_Witness ==
    /\ request = "rejected"
    /\ isTraining
    /\ inFlight = 1
    /\ fitPc = "epoch"
    /\ Len(history) > 0

\* C5: a training request that arrives while a run is active shows a
\* warning notification (and starts nothing)
C5_RejectedWithWarning ==
    [][(TrainModel /\ isTraining)
          => notification' = "warning" /\ inFlight' = inFlight]_vars

\* C28: isTraining is true only while a run is in flight; every run that
\* has set it clears it again, however fit ends; and a training request
\* that finds it clear is not turned away
C28_TrainingFlagIsCleared ==
    /\ [](isTraining => fitPc = "epoch" /\ inFlight = 1)
    /\ (isTraining ~> ~isTraining)
    /\ [][(TrainModel /\ ~isTraining)
            => request' \in {"nodata", "started"} /\ notification' # "warning"]_vars

\* a run that was accepted has ended, in each of the three ways fit ends
C28_Witness ==
    /\ request = "started"
    /\ ~isTraining
    /\ fitPc \in {"done_max", "done_early", "error"}
    /\ inFlight = 0

\* C30: once handleFileUpload has processed a text with enough dates for
\* both splits, the app holds the tensors a training request looks for, and
\* a request that arrives while none is running reaches fit
C30_UploadEnablesTraining ==
    /\ [](loader # Null => TrainTensors(variant) # Null)
    /\ [][(TrainModel /\ loader # Null /\ ~isTraining)
            => request' = "started" /\ fitPc' = "epoch"]_vars

\* C9: no evaluate or predict of the model has computed on its parameters
\* while a training run was in flight
C9_NoEvaluationWhileTraining ==
    ~(/\ lastCall.op \in {"evaluate", "predict"}
      /\ lastCall.result = "value"
      /\ lastCall.during)

----------------------------------------------------------------------------
\* Properties of GRUModel, checked under SpecFit

\* The 1-based epoch of this run with the lowest validation loss (the first
\* one, when the lowest loss occurs more than once)
BestEpoch(h) ==
    CHOOSE i \in 1..Len(h) :
        /\ \A j \in 1..Len(h) : ~Less(h[j], h[i])
        /\ \A j \in 1..(i - 1) : Less(h[i], h[j])

\* every epoch's validation loss is below that of the epoch before it, the
\* first one below Infinity (a NaN loss is below nothing)
StrictlyDecreasing(h) ==
    \A i \in 1..Len(h) : Less(h[i], IF i = 1 THEN Infinity ELSE h[i - 1])

FitEnded == fitPc \in {"done_max", "done_early", "error"}

\* C2: when fit has stopped early, the model's parameters are those it had
\* at the end of the epoch with the lowest validation loss
C2_RestoredBestEpochWeights ==
    fitPc = "done_early" => weights = BestEpoch(history)

\* C3: if the validation loss strictly decreases on every epoch, fit runs
\* exactly epochs epochs and the early-stopping branch is never taken: the
\* patience counter stays 0 and fit ends by the loop condition
C3_StrictDecreaseRunsAllEpochs ==
    (BackendOutcomes(X) = {"ok"} /\ fitPc # "idle" /\ StrictlyDecreasing(history))
        => /\ patienceCounter = 0
           /\ Len(history) <= epochs
           /\ fitPc = "epoch" => Len(history) < epochs
           /\ FitEnded => fitPc = "done_max" /\ Len(history) = epochs

\* a run of more than patience epochs, each with a lower validation loss
C3_Witness ==
    /\ fitPc = "done_max"
    /\ epochs > patience
    /\ Len(history) = epochs
    /\ StrictlyDecreasing(history)

\* C4: every epoch fit has run has dispatched exactly one trainingProgress
\* event carrying its 1-based index, so the events of a fit call are
\* 1, 2, .., number of epochs run
C4_OneEventPerEpoch ==
    events = [i \in 1..Len(history) |-> i]

\* C6: predictWithUncertainty on a built model returns a prediction (the
\* mean of the passes), as predict does
C6_PredictWithUncertaintyReturns ==
    (lastCall.op = "predictWithUncertainty" /\ model = "built")
        => lastCall.result = "value"

\* C7: predict and evaluate on a model that was never built raise the
\* explicit Error and leave model, history, bestValLoss and bestWeights as
\* they were
C7_UnbuiltPredictEvaluateThrow ==
    [][((Call("predict") \/ Call("evaluate")) /\ model = "null")
          => /\ lastCall'.result = "Error"
             /\ UNCHANGED <<model, history, bestValLoss, bestWeights>>]_vars

C7_Witness ==
    /\ model = "null"
    /\ lastCall.op \in {"predict", "evaluate"}
    /\ lastCall.result = "Error"

\* C8: fit with an empty training or validation split fails at once: it is
\* never suspended in an epoch of the backend, and has recorded no history
\* entry and dispatched no event
C8_EmptySplitFailsBeforeAnyEpoch ==
    (fitPc # "idle" /\ (X.train = 0 \/ X.val = 0))
        => fitPc = "error" /\ history = <<>> /\ events = <<>>

\* the lowest validation loss among the numbers of h, Infinity when h
\* holds none
MinLoss(h) ==
    LET numbers == {h[i] : i \in DOMAIN h} \ {NaN}
    IN  IF numbers = {} THEN Infinity
        ELSE CHOOSE x \in numbers : \A y \in numbers : x <= y

\* C25: during a fit call, after every epoch, bestValLoss is the lowest
\* validation loss of the run's history so far; it starts at Infinity and
\* never increases within a run, and the best-weights snapshot is replaced
\* only on an epoch whose validation loss is strictly lower than
\* bestValLoss (a tie does not replace it)
C25_BestValLossIsRunningMinimum ==
    /\ [](bestValLoss = MinLoss(history))
    /\ [][/\ history' = <<>> => bestValLoss' = Infinity
          /\ history' # <<>> =>
                /\ bestValLoss' <= bestValLoss
                /\ bestWeights' # bestWeights =>
                      /\ Len(history') = Len(history) + 1
                      /\ history'[Len(history')] # NaN
                      /\ history'[Len(history')] < bestValLoss]_vars

\* a run whose latest epoch tied with the best validation loss, reached
\* one epoch before, and kept the snapshot of that epoch
C25_Witness ==
    /\ Len(history) >= 3
    /\ history[Len(history)] = bestValLoss
    /\ history[Len(history) - 1] = bestValLoss
    /\ history[Len(history) - 2] > bestValLoss
    /\ bestWeights = Copy(Len(history) - 1)

\* C26: fit ends after at most epochs epochs, and it stops at the first
\* epoch at which the last patience epochs all failed to lower the best
\* validation loss, that is patience epochs after the best epoch; when it
\* stops this way there is a best-weights snapshot to restore, whatever
\* the validation losses were
C26_StopsWithSnapshot ==
    /\ Len(history) <= epochs
    /\ fitPc = "epoch" => Len(history) < epochs /\ patienceCounter < patience
    /\ fitPc = "done_max" => Len(history) = epochs /\ patienceCounter < patience
    /\ patienceCounter >= patience =>
          /\ bestWeights # Null
          /\ fitPc = "done_early"
          /\ Len(history) = BestEpoch(history) + patience

\* C18: the classifier built for a dataset has an input feature width and
\* a sigmoid output width of 3 * |selected tracks|, whatever tracks were
\* selected, fewer than 10 included
C18_WidthsMatchTrackSet ==
    (model = "built" /\ fitPc # "idle")
        => /\ InputFeatures = 3 * X.tracks
           /\ OutputUnits = 3 * X.tracks

----------------------------------------------------------------------------
\* Properties of DataLoader, checked under SpecSelect

TrackIds(d) == {d[i].track_id : i \in DOMAIN d}

\* C10: selectTopTracks(N) selects exactly min(N, number of distinct track
\* ids) of the tracks of the rows it was given, each once, in non-increasing
\* order of total streams, and no track left out has a larger total than a
\* selected one
C10_TopTracksByTotalStreams ==
    loaded =>
        /\ Len(selectedTracks) = Min(lastN, Cardinality(TrackIds(ingested)))
        /\ Cardinality(Range(selectedTracks)) = Len(selectedTracks)
        /\ Range(selectedTracks) \subseteq TrackIds(ingested)
        /\ \A i, j \in DOMAIN selectedTracks :
              i < j => Total(ingested, selectedTracks[i])
                           >= Total(ingested, selectedTracks[j])
        /\ \A t \in TrackIds(ingested) \ Range(selectedTracks) :
              \A u \in Range(selectedTracks) :
                  Total(ingested, t) <= Total(ingested, u)

\* a selection that cut the ranking, reordered the tracks and ranked a track
\* by the sum of its rows
C10_Witness ==
    /\ loaded
    /\ lastN >= 1
    /\ lastN < Cardinality(TrackIds(ingested))
    /\ Len(selectedTracks) = lastN
    /\ ingested[1].track_id \notin Range(selectedTracks)
    /\ Total(ingested, selectedTracks[1]) > MaxStreams

----------------------------------------------------------------------------
\* Properties of the DataLoader's windows, checked under SpecWindows

\* the rows a store keyed by (track_id, date) would hold after reading d:
\* a later row replaces an earlier one with its key
RECURSIVE LastSeenRows(_)
LastSeenRows(d) ==
    IF d = <<>> THEN <<>>
    ELSE LET last == d[Len(d)]
         IN  Append(SelectSeq(LastSeenRows(SubSeq(d, 1, Len(d) - 1)),
                              LAMBDA r : ~(r.track_id = last.track_id
                                           /\ r.date = last.date)),
                    last)

\* C11: when a text has several rows for one (track_id, date), the store
\* holds a single observation for that key, the last one read, and the
\* total streams of each selected track are summed over those observations
C11_LaterRowOverwritesEarlier ==
    loaded =>
        /\ \A i, j \in DOMAIN data :
              (data[i].track_id = data[j].track_id
                  /\ data[i].date = data[j].date) => i = j
        /\ \A i \in DOMAIN data :
              \E k \in DOMAIN LastSeenRows(ingested) :
                  LastSeenRows(ingested)[k] = data[i]
        /\ \A t \in Range(selectedTracks) :
              trackMetadata[t].totalStreams = Total(LastSeenRows(ingested), t)

\* the features normalizeFeatures scales (line 129)
Features == {"streams", "danceability", "energy"}

\* C12: after normalizeFeatures every record has, for streams, danceability
\* and energy, a derived value in [0, 1] equal to (v - min) / (max - min)
\* over the records of its track, and exactly 0.5 when min = max
C12_NormalizedPerTrack ==
    \A i \in DOMAIN normalized : \A f \in Features :
        LET v == normalized[i][f]
            values == FeatureValues(data, data[i].track_id, f)
            min == MinOf(values)
            max == MaxOf(values)
        IN  /\ v # Undefined
            /\ v.den > 0 /\ 0 <= v.num /\ v.num <= v.den
            /\ IF min = max THEN v.num * 2 = v.den
               ELSE v.num * (max - min) = (data[i][f] - min) * v.den

\* records have been normalized: one has a flat feature next to the
\* largest streams of its track, another the smallest streams
C12_Witness ==
    /\ normalized # <<>>
    /\ \E i, j \in DOMAIN normalized :
          /\ normalized[i].energy = Half
          /\ normalized[i].streams = Ratio(1, 1)
          /\ normalized[j].streams = Zero
          /\ data[j].track_id = data[i].track_id

\* createSlidingWindows has run on the loaded rows
WindowsBuilt == normalized # <<>>

\* C13: from D distinct dates createSlidingWindows builds exactly
\* max(0, D - W - 3) (sample, target) pairs, one for each anchor index i
\* with W <= i < D - 3 of the sorted dates, in ascending order
C13_OnePairPerAnchor ==
    WindowsBuilt =>
        LET D == Cardinality(dates)
            sorted == SortedDates(dates)
            count == IF D - windowSize - 3 > 0 THEN D - windowSize - 3 ELSE 0
        IN  /\ Len(samples) = count
            /\ Len(targets) = count
            /\ Len(anchors) = count
            /\ \A k \in DOMAIN anchors : anchors[k] = sorted[windowSize + k]
            /\ \A k \in DOMAIN anchors :
                  k + 1 \in DOMAIN anchors => anchors[k] < anchors[k + 1]

\* windows have been built from the longest text: several pairs
C13_Witness ==
    /\ WindowsBuilt
    /\ Cardinality(dates) = MaxDates
    /\ Len(samples) >= 2
    /\ anchors[1] = windowSize + 1

\* C14: every sample has exactly 7 day-vectors, each of length
\* 3 * |selected tracks|, and every label has length 3 * |selected tracks|
\* with entries in {0, 1}
C14_SampleAndLabelShapes ==
    /\ \A k \in DOMAIN samples :
          /\ Len(samples[k]) = 7
          /\ \A j \in DOMAIN samples[k] :
                Len(samples[k][j]) = 3 * Len(selectedTracks)
    /\ \A k \in DOMAIN targets :
          /\ Len(targets[k]) = 3 * Len(selectedTracks)
          /\ \A u \in DOMAIN targets[k] : targets[k][u] \in {0, 1}

\* pairs have been built for several tracks, with a label that has both a
\* rise and a unit without one
C14_Witness ==
    /\ Len(selectedTracks) >= 2
    /\ \E k \in DOMAIN targets :
          /\ k \in DOMAIN samples
          /\ \E u, v \in DOMAIN targets[k] :
                targets[k][u] = 1 /\ targets[k][v] = 0

\* the record of track t on date, as this.data.find hands it out, and
\* whether there is one (C11 settles which record that is when a text
\* repeats a key)
Observed(date, t) == Find(data, date, t) # 0
RawStreams(date, t) == data[Find(data, date, t)].streams

\* C15: for the pair of anchor index i, the selected track at position p
\* and the offset o in 1..3, the label entry 3 * p + (o - 1) (p counted
\* from 0) is 1 if and only if the track has an observation on dates[i] and
\* on dates[i + o] and the raw streams on dates[i + o] are strictly greater
\* than those on dates[i]; otherwise it is 0
C15_LabelIsStrictRise ==
    LET sorted == SortedDates(dates)
    IN  \A k \in DOMAIN targets :
            \A p \in DOMAIN selectedTracks : \A o \in 1..3 :
                LET t == selectedTracks[p]
                    i == windowSize + k
                    rise == /\ Observed(sorted[i], t)
                            /\ Observed(sorted[i + o], t)
                            /\ RawStreams(sorted[i + o], t)
                                   > RawStreams(sorted[i], t)
                IN  targets[k][3 * (p - 1) + o] = (IF rise THEN 1 ELSE 0)

\* labels have been built where one track has no observation on a date
\* that is the anchor of one pair and a future date of another, a second
\* track has equal streams on an anchor and a future date, and some entry
\* is 1
C15_Witness ==
    LET sorted == SortedDates(dates)
    IN  /\ Len(targets) >= 2
        /\ \E t \in Range(selectedTracks) :
              /\ ~Observed(sorted[windowSize + 2], t)
              /\ Observed(sorted[windowSize + 1], t)
        /\ \E t \in Range(selectedTracks) :
              /\ Observed(sorted[windowSize + 1], t)
              /\ Observed(sorted[windowSize + 2], t)
              /\ RawStreams(sorted[windowSize + 1], t)
                     = RawStreams(sorted[windowSize + 2], t)
        /\ \E k \in DOMAIN targets : \E u \in DOMAIN targets[k] :
              targets[k][u] = 1

\* C16: in the sample of anchor index i, day-vector j (0 <= j < W) is built
\* from dates[i - W + j] whatever dates are absent: the slice of a selected
\* track without an observation on that date is (0, 0, 0), the slice of a
\* track with one is its normalized (streams, danceability, energy) in that
\* order, and no sample is left out because an observation is missing
C16_MissingDaysAreZeroVectors ==
    LET sorted == SortedDates(dates)
        D == Cardinality(dates)
    IN  /\ WindowsBuilt /\ D > windowSize + 3
              => Len(samples) = D - windowSize - 3
        /\ \A k \in DOMAIN samples :
              \A j \in 0..(windowSize - 1) : \A p \in DOMAIN selectedTracks :
                  LET t == selectedTracks[p]
                      date == sorted[k + j]
                      day == samples[k][j + 1]
                      e == normalized[Find(data, date, t)]
                  IN  SubSeq(day, 3 * (p - 1) + 1, 3 * p)
                          = IF Observed(date, t)
                            THEN <<e.streams, e.danceability, e.energy>>
                            ELSE <<Zero, Zero, Zero>>

\* a sample has been built whose window holds a date on which one selected
\* track has no observation, next to a track that has one with the largest
\* streams of its records
C16_Witness ==
    LET sorted == SortedDates(dates)
    IN  \E k \in DOMAIN samples : \E j \in 0..(windowSize - 1) :
            /\ \E t \in Range(selectedTracks) : ~Observed(sorted[k + j], t)
            /\ \E t \in Range(selectedTracks) :
                  /\ Observed(sorted[k + j], t)
                  /\ normalized[Find(data, sorted[k + j], t)].streams
                         = Ratio(1, 1)

\* C17: splitData on n pairs puts the first floor(n * 0.8) pairs, in order,
\* into the train tensors and the remaining pairs, in order, into the test
\* tensors: the two lengths add up to n, samples and labels stay aligned,
\* and every train anchor date precedes every test anchor date
C17_SequentialSplit ==
    WindowsBuilt =>
        LET n == Len(samples)
            train == (n * 8) \div 10
        IN  /\ X_train # Null /\ y_train # Null
            /\ X_test # Null /\ y_test # Null
            /\ X_train.values = SubSeq(samples, 1, train)
            /\ y_train.values = SubSeq(targets, 1, train)
            /\ X_test.values = SubSeq(samples, train + 1, n)
            /\ y_test.values = SubSeq(targets, train + 1, n)
            /\ Len(X_train.values) + Len(X_test.values) = n
            /\ \A a \in 1..train : \A b \in (train + 1)..n :
                  anchors[a] < anchors[b]

----------------------------------------------------------------------------
\* Properties of the accuracy methods, checked under SpecScore

\* the units of the cells cs where [prediction > 0.5] equals the label
Matches(cs) ==
    Cardinality({c \in cs :
        (score.predictions[c[1]][c[2]] * 10 > 50)
            <=> (score.y_true[c[1]][c[2]] = 1)})

\* the number r is 100 * m / d
IsPercentOf(r, m, d) == r.den > 0 /\ r.num * d = 100 * m * r.den

AllUnits ==
    {<<sm, u>> : sm \in DOMAIN score.y_true, u \in DOMAIN score.y_true[1]}

\* C19: computeConsistentAccuracy(predictions, y_true) returns
\* 100 * (number of units where [prediction > 0.5] equals the label)
\* / (number of units); when exactly half of the units match, it returns
\* exactly 50
C19_ConsistentAccuracy ==
    score.op = "computeConsistentAccuracy" =>
        /\ score.result.kind = "number"
        /\ IsPercentOf(score.result.value, Matches(AllUnits),
                       Cardinality(AllUnits))
        /\ 2 * Matches(AllUnits) = Cardinality(AllUnits)
              => score.result.value = Ratio(50, 1)

\* C20: computeTrackSpecificAccuracy returns for each track k the overall
\* accuracy 100 * (matches over its 3 units across all samples)
\* / (3 * samples) and for each horizon h 100 * (matches at unit 3k + h)
\* / samples, and for each horizon h the global accuracy 100 * (matches at
\* horizon h over all tracks) / (samples * tracks), with threshold 0.5
C20_TrackSpecificAccuracy ==
    score.op = "computeTrackSpecificAccuracy" =>
        LET n == Len(score.y_true)
            K == score.tracks
            unit(k, h) == {<<sm, 3 * (k - 1) + h>> : sm \in 1..n}
            r == score.result
        IN  /\ DOMAIN r.trackAccuracies = 1..K
            /\ \A k \in 1..K :
                  /\ IsPercentOf(r.trackAccuracies[k].accuracy,
                                 Matches(unit(k, 1) \cup unit(k, 2)
                                             \cup unit(k, 3)),
                                 3 * n)
                  /\ \A h \in 1..3 :
                        IsPercentOf(r.trackAccuracies[k].dayAccuracies[h],
                                    Matches(unit(k, h)), n)
            /\ \A h \in 1..3 :
                  IsPercentOf(r.dayAccuracies[h],
                              Matches(UNION {unit(k, h) : k \in 1..K}),
                              n * K)

\* track accuracies have been computed for several samples of several
\* tracks, with a prediction of exactly 0.5 where the label is 1, a track
\* that is right on some units only, and a horizon where one track is
\* right in every sample and the other in half of them
C20_Witness ==
    /\ score.op = "computeTrackSpecificAccuracy"
    /\ Len(score.y_true) >= 2
    /\ score.tracks >= 2
    /\ \E sm \in DOMAIN score.y_true : \E u \in 1..3 :
          score.predictions[sm][u] = Threshold /\ score.y_true[sm][u] = 1
    /\ \E k \in 1..score.tracks :
          score.result.trackAccuracies[k].accuracy \notin {Zero, Ratio(100, 1)}
    /\ \E h \in 1..3 :
          /\ score.result.trackAccuracies[1].dayAccuracies[h] = Ratio(100, 1)
          /\ score.result.trackAccuracies[2].dayAccuracies[h] = Ratio(50, 1)
          /\ score.result.dayAccuracies[h] = Ratio(75, 1)

----------------------------------------------------------------------------
\* Properties of the analyses of MusicPopularityApp, checked under
\* SpecInsight

\* computeFeatureImportance was called on a built model with test data
ImportanceCalled ==
    /\ insight.op = "computeFeatureImportance"
    /\ insight.model = "built"
    /\ insight.X_test

\* C21: computeFeatureImportance, called on a trained model with test data
\* present, returns a list with exactly one entry for each of the features
\* Streams, Danceability and Energy, in non-increasing order of importance
C21_OneEntryPerFeatureSorted ==
    ImportanceCalled =>
        /\ insight.result # Null
        /\ Len(insight.result.items) = 3
        /\ {insight.result.items[i].feature : i \in 1..3}
              = {"Streams", "Danceability", "Energy"}
        /\ \A i \in 1..2 : insight.result.items[i].importance
                               >= insight.result.items[i + 1].importance

TrendTotal(k) ==
    SumSeq([sm \in DOMAIN insight.predictions |->
               LET p == insight.predictions[sm]
               IN  2 * p[3 * k] + p[3 * k - 1] - 3 * p[3 * k - 2]])

\* C23: detectBreakoutTracks gives each track k the mean over all samples
\* of (p3 - p1) * 2 + (p2 - p1), p1, p2, p3 being the predictions at units
\* 3k, 3k + 1, 3k + 2, calls its trend "rising" exactly when that mean is
\* strictly positive and "stable" otherwise, and returns the tracks in
\* non-increasing order of that mean
C23_BreakoutTrendAndOrder ==
    insight.op = "detectBreakoutTracks" =>
        LET r == insight.result
            n == Len(insight.predictions)
        IN  /\ Len(r) = Len(insight.tracks)
            /\ {r[i].trackId : i \in DOMAIN r}
                  = {insight.tracks[k].id : k \in DOMAIN insight.tracks}
            /\ \A i \in DOMAIN r :
                  LET total == TrendTotal(r[i].trackId)
                  IN  /\ r[i].breakoutScore.den > 0
                      /\ r[i].breakoutScore.num * 10 * n
                            = 100 * total * r[i].breakoutScore.den
                      /\ r[i].trend = IF total > 0 THEN "rising" ELSE "stable"
            /\ \A i, j \in DOMAIN r :
                  i < j => TrendTotal(r[i].trackId) >= TrendTotal(r[j].trackId)

\* breakout tracks have been computed from several samples: the track with
\* predictions (0.1, 0.5, 0.9) in every sample is rising and comes first, a
\* track whose mean is exactly 0 is stable and follows it
C23_Witness ==
    /\ insight.op = "detectBreakoutTracks"
    /\ Len(insight.predictions) >= 2
    /\ Len(insight.result) >= 2
    /\ \A sm \in DOMAIN insight.predictions :
          SubSeq(insight.predictions[sm], 1, 3) = <<1, 5, 9>>
    /\ insight.result[1].trackId = 1
    /\ insight.result[1].trend = "rising"
    /\ insight.result[2].trend = "stable"
    /\ insight.result[2].breakoutScore = Zero

\* C24: calculateRiskLevel(signal, confidence) returns low when
\* signal > 0.10 and confidence > 0.70, otherwise medium when signal > 0.05
\* and confidence > 0.60, otherwise high when signal > 0, otherwise
\* very-high; so the riskLevel of a track is very-high exactly when its
\* trend is "stable"
C24_RiskLevelThresholds ==
    /\ insight.op = "calculateRiskLevel" =>
          LET sg == insight.breakoutScore
              cf == insight.confidence
              low == sg.num * 10 > sg.den /\ cf.num * 10 > 7 * cf.den
              medium == sg.num * 20 > sg.den /\ cf.num * 10 > 6 * cf.den
          IN  /\ insight.result = "low" <=> low
              /\ insight.result = "medium" <=> ~low /\ medium
              /\ insight.result = "high" <=> ~low /\ ~medium /\ sg.num > 0
              /\ insight.result = "very-high" <=> sg.num <= 0
    /\ insight.op = "detectBreakoutTracks" =>
          \A i \in DOMAIN insight.result :
              insight.result[i].riskLevel = "very-high"
                  <=> insight.result[i].trend = "stable"

\* calculateRiskLevel has returned medium for a signal above 0.10 whose
\* confidence is exactly 0.70
C24_Witness ==
    /\ insight.op = "calculateRiskLevel"
    /\ insight.breakoutScore = Ratio(11, 100)
    /\ insight.confidence = Ratio(70, 100)
    /\ insight.result = "medium"

\* the values of tensor t at feature index f of the first k tracks, each
\* with the number of slots (sample, day, track) that hold it
FeatureBag(t, f, k) ==
    LET slots == {<<sm, day, tr>> : sm \in DOMAIN t, day \in DOMAIN t[1],
                                    tr \in 0..(k - 1)}
        at(sl) == t[sl[1]][sl[2]][3 * sl[3] + f + 1]
    IN  [v \in {at(sl) : sl \in slots} |->
            Cardinality({sl \in slots : at(sl) = v})]

\* C27: shuffleFeature(X, f) returns a new tensor of the shape of X in
\* which the values at feature index f, over all samples, days and selected
\* tracks, are those of X with the same multiplicities, and every value at
\* the other two feature indices is where it was; X itself is as it was
C27_ShuffleKeepsFeatureValues ==
    shuffle.pc = "done" =>
        LET x == shuffle.X
            r == shuffle.result.values
            f == shuffle.featureIndex
            k == Len(x[1][1]) \div 3
        IN  /\ DOMAIN r = DOMAIN x
            /\ \A sm \in DOMAIN x :
                  /\ DOMAIN r[sm] = DOMAIN x[sm]
                  /\ \A day \in DOMAIN x[sm] :
                        /\ DOMAIN r[sm][day] = DOMAIN x[sm][day]
                        /\ \A u \in DOMAIN x[sm][day] :
                              (u - 1) % 3 # f => r[sm][day][u] = x[sm][day][u]
            /\ FeatureBag(r, f, k) = FeatureBag(x, f, k)

----------------------------------------------------------------------------
\* Properties of a DataLoader that reads several texts, checked under
\* SpecReload

\* C29: after any sequence of CSV loads the keys of trackMetadata, in their
\* order, are selectedTracks, and every date of the date set is a date of
\* the text read last
C29_MetadataAndDatesFollowLatestLoad ==
    loaded =>
        /\ metadataKeys = selectedTracks
        /\ dates \subseteq {ingested[i].date : i \in DOMAIN ingested}

====
